---- MODULE Spec2Model ----
(***************************************************************************)
(* Model of keystore2's per-security-level service                         *)
(* (keystore2/src/security_level.rs, keystore2/src/utils.rs).              *)
(*                                                                         *)
(* Several binder threads call generateKey, importKey, importWrappedKey    *)
(* and createOperation on one KeystoreSecurityLevel instance.  Every call  *)
(* the handlers make to a collaborator (KeyMint engine, key database,      *)
(* permission module, operation database) is one step of the calling       *)
(* thread, so calls of different threads interleave.                       *)
(***************************************************************************)
EXTENDS Integers, Sequences, FiniteSets, TLC

\* ------------------------------------------------------------------ bounds
MaxVersion == 2
MaxPrune == 3
MaxOps == 2

Threads == {1, 2}
Uids == {1, 2}
Nspaces == {2}
Versions == 0..MaxVersion

\* ------------------------------------------------------------- data types
NoAlias == "none"
Aliases == {"k1"}

\* A key blob is opaque to keystore; the model keeps the key material it
\* encodes and the engine version that produced it.
NoBlob == [mat |-> 0, ver |-> 0]
Blob(m, v) == [mat |-> m, ver |-> v]
\* Key material of the blobs clients keep themselves (Domain::BLOB), of the
\* two stored keys, and of the keys the engine creates.
ClientMat == 1
NewMat == 3
\* The wrapped key data importWrappedKey receives in key.blob.
WrappedData == [mat |-> 9, ver |-> 0]

KeyDescriptor(d, n, a, b) == [domain |-> d, nspace |-> n, alias |-> a, blob |-> b]
NoKey == KeyDescriptor("NONE", 0, NoAlias, NoBlob)

NoReq == [op |-> "none", uid |-> 0, key |-> NoKey, wkey |-> NoKey,
          alg |-> "NONE", purpose |-> FALSE, auths |-> {}]

\* Locals of a running handler.
NoLoc == [key |-> NoKey,        \* the namespace-rewritten descriptor
          blob |-> NoBlob,      \* blob returned by the engine for a creation
          chain |-> 0,          \* length of the returned certificate chain, -1: None
          km_blob |-> NoBlob,   \* blob handed to upgrade_keyblob_if_required_with
          guard |-> 0,          \* key id of the KeyIdGuard the handler owns, 0: none
          upgraded |-> NoBlob,  \* upgraded_blob
          attempt |-> 0,        \* which call of f is running: 1 or 2
          next |-> "none",      \* where the handler goes on after get_interface
          op |-> 0]             \* operation returned by begin, 0: None

\* What a request has done so far (history, not program state).
NoHist == [perms |-> <<>>,      \* permission checks made: <<perm, descriptor>>
           rebindOk |-> FALSE,  \* the rebind check has succeeded
           eng |-> <<>>,        \* engine calls made: [call, blob, arg, rc]
           prunes |-> <<>>,     \* uids passed to prune
           pruned |-> <<>>,     \* results of the prune calls
           muts |-> 0,          \* key database mutations made
           kid |-> 0,           \* key id loaded
           blob0 |-> NoBlob,    \* blob stored for that key id at load time
           first |-> "none",    \* result of f(blob)
           second |-> "none",   \* result of f(&upgraded_blob)
           upgraded |-> NoBlob, \* blob returned by upgradeKey
           persisted |-> "none",\* result of insert_blob(upgraded_blob)
           ret |-> "none",      \* result of upgrade_keyblob_if_required_with
           returned |-> NoBlob] \* its upgraded-blob part, NoBlob: None

NoResult == [rc |-> "none", key |-> NoKey, cert |-> FALSE, chain |-> FALSE, op |-> 0]

VARIABLES pc, req, loc, hist, result, store, guards, ops, kmVersion, mutex

vars == <<pc, req, loc, hist, result, store, guards, ops, kmVersion, mutex>>

\* ------------------------------------------------------------ collaborators
\* KeyMint: a blob produced by an older engine version must be upgraded
\* before use; the engine never accepts it.
Stale(b) == b.ver < kmVersion

\* engine upgradeKey: same key material, current version.
upgradeKey(b) == Blob(b.mat, kmVersion)

\* error::map_km_error keeps the engine's error code.
EngineErrors == {"KEY_REQUIRES_UPGRADE", "TOO_MANY_OPERATIONS", "KM_ERROR"}

\* Key database entry.
Entry(d, n) == [domain |-> d, nspace |-> n, alias |-> NoAlias, blob |-> NoBlob,
                cert |-> FALSE, chain |-> FALSE, params |-> FALSE]

KeyIds == 1..Len(store)

\* The key database the service starts with: two keys created at engine
\* version 0, and an entry a failed creation has left without blob and alias.
InitStore ==
    << [Entry("APP", 1) EXCEPT !.alias = "k1", !.blob = Blob(1, 0), !.params = TRUE],
       [Entry("SELINUX", 2) EXCEPT !.alias = "k1", !.blob = Blob(2, 0), !.cert = TRUE,
                                   !.chain = TRUE, !.params = TRUE],
       Entry("APP", 2) >>

\* database::rebind_alias: the alias is taken away from the entry that had it.
rebind_alias(s, kid, a, d, n) ==
    [k \in 1..Len(s) |->
        IF k = kid THEN [s[k] EXCEPT !.alias = a]
        ELSE IF s[k].alias = a /\ s[k].domain = d /\ s[k].nspace = n
             THEN [s[k] EXCEPT !.alias = NoAlias]
             ELSE s[k]]

\* Dropping an Option<KeyIdGuard>.
Drop(g) == guards \ {g}

\* The handler returns and its KeyIdGuard stays locked.
Finish_KeepsGuard(t, res) ==
    /\ pc' = [pc EXCEPT ![t] = "done"]
    /\ result' = [result EXCEPT ![t] = res]
    /\ loc' = [loc EXCEPT ![t] = NoLoc]
    /\ UNCHANGED <<guards, mutex>>

\* The handler returns: its locals are dropped, the KeyIdGuard among them.
Return(t, res) ==
    /\ pc' = [pc EXCEPT ![t] = "done"]
    /\ result' = [result EXCEPT ![t] = res]
    /\ loc' = [loc EXCEPT ![t] = NoLoc]
    /\ guards' = Drop(loc[t].guard)

\* The handler returns from anywhere but get_interface.
Finish(t, res) == Return(t, res) /\ UNCHANGED mutex

\* The handler goes on to its next call with the locals l.
Goto(t, next, l) ==
    /\ pc' = [pc EXCEPT ![t] = next]
    /\ loc' = [loc EXCEPT ![t] = l]
    /\ UNCHANGED <<result, guards, mutex>>

\* Asp::get_interface, self.0.lock(): the handler waits for the mutex of the
\* shared binder and goes on inside get_interface with the locals l.
lock(t, next, l) ==
    /\ mutex = 0
    /\ mutex' = t
    /\ pc' = [pc EXCEPT ![t] = "get_interface"]
    /\ loc' = [loc EXCEPT ![t] = [l EXCEPT !.next = next]]
    /\ UNCHANGED <<result, guards>>

\* The handler returns Err: map_or_log_err reports the error code.
Done(t, rc) == Finish(t, [NoResult EXCEPT !.rc = rc])

Log(t, field, v) == [hist EXCEPT ![t][field] = Append(@, v)]

\* permission::check_key_permission is decided by the SELinux policy and the
\* access vector; the model lets every check go either way.
Decisions == {"Ok", "PERMISSION_DENIED"}

\* binder into_interface, as used by Asp::get_interface.
BinderResults == {"Ok", "SYSTEM_ERROR"}

Init ==
    /\ pc = [t \in Threads |-> "idle"]
    /\ req = [t \in Threads |-> NoReq]
    /\ loc = [t \in Threads |-> NoLoc]
    /\ hist = [t \in Threads |-> NoHist]
    /\ result = [t \in Threads |-> NoResult]
    /\ store = InitStore
    /\ guards = {}
    /\ ops = {}
    /\ kmVersion = 0
    /\ mutex = 0


\* get_interface returning with the mutex still locked.
get_interface_KeepsLock(t) ==
    /\ pc[t] = "get_interface"
    /\ \E b \in BinderResults :
         IF b = "Ok"
         THEN /\ pc' = [pc EXCEPT ![t] = loc[t].next]
              /\ UNCHANGED <<loc, result, guards>>
         ELSE Return(t, [NoResult EXCEPT !.rc = b])
    /\ UNCHANGED <<req, hist, store, ops, kmVersion, mutex>>

\* Asp::get_interface under the lock: the binder is cloned and converted
\* into the interface; the MutexGuard is dropped when the function returns,
\* with the handle or with the error.
get_interface(t) ==
    /\ pc[t] = "get_interface"
    /\ mutex' = 0
    /\ \E b \in BinderResults :
         IF b = "Ok"
         THEN /\ pc' = [pc EXCEPT ![t] = loc[t].next]
              /\ UNCHANGED <<loc, result, guards>>
         ELSE Return(t, [NoResult EXCEPT !.rc = b])
    /\ UNCHANGED <<req, hist, store, ops, kmVersion>>

\* ------------------------------------------------------------- key creation
CreateDomains == {"APP", "SELINUX", "BLOB"}
Creations == {"generateKey", "importKey", "importWrappedKey"}
Algorithms == {"AES", "HMAC", "TRIPLE_DES", "RSA", "EC", "DH", "NONE"}
Authenticators == {"PASSWORD", "FINGERPRINT"}

\* The descriptors clients ask to create.
NewKeys(blobs) ==
    {KeyDescriptor(d, n, a, b) :
        d \in CreateDomains, n \in Nspaces, a \in Aliases \cup {NoAlias}, b \in blobs}

\* A client's call arrives at a binder thread.
Call(t, r, entry) ==
    /\ pc[t] = "idle"
    /\ req' = [req EXCEPT ![t] = r]
    /\ pc' = [pc EXCEPT ![t] = entry]
    /\ UNCHANGED <<loc, hist, result, store, guards, ops, kmVersion, mutex>>

\* IKeystoreSecurityLevel::generateKey
generateKey(t) ==
    \E u \in Uids, key \in NewKeys({NoBlob}) :
        Call(t, [NoReq EXCEPT !.op = "generateKey", !.uid = u, !.key = key],
             "generate_key")

\* IKeystoreSecurityLevel::importKey
importKey(t) ==
    \E u \in Uids, key \in NewKeys({NoBlob}), g \in Algorithms :
        Call(t, [NoReq EXCEPT !.op = "importKey", !.uid = u, !.key = key, !.alg = g],
             "import_key")

\* The alias test the three creation handlers start with.
AliasMissing(key) == key.domain # "BLOB" /\ key.alias = NoAlias

\* The creation handlers going on with the descriptor they were given.
Rewritten_KeepsNspace(key, uid) == key

\* The descriptor the creation handlers go on with: an APP key gets the
\* caller's uid as namespace and loses its blob.
Rewritten(key, uid) ==
    IF key.domain = "APP"
    THEN KeyDescriptor(key.domain, uid, key.alias, NoBlob)
    ELSE key

\* What an engine call returns on success: the operation of begin, or the
\* blob of a creation, an unwrapping or an upgrade.
Val(o, b) == [op |-> o, blob |-> b]
NoVal == Val(0, NoBlob)

\* An engine call as the history records it.
EngCall(c, b, a, rc, out) ==
    [call |-> c, blob |-> b, arg |-> a, rc |-> rc, out |-> IF rc = "Ok" THEN out ELSE NoVal]

\* generate_key without its alias test.
generate_key_NoAliasTest(t) ==
    /\ pc[t] = "generate_key"
    /\ LET key == Rewritten(req[t].key, req[t].uid)
           h == Log(t, "perms", <<"rebind", key>>)
       IN \E p \in Decisions :
            IF p # "Ok"
            THEN Done(t, p) /\ hist' = h
            ELSE /\ hist' = [h EXCEPT ![t].rebindOk = TRUE]
                 /\ lock(t, "addRngEntropy", [loc[t] EXCEPT !.key = key])
    /\ UNCHANGED <<req, store, ops, kmVersion>>

\* generate_key up to the first engine call: alias test, namespace rewrite,
\* rebind permission, engine handle.
generate_key(t) ==
    /\ pc[t] = "generate_key"
    /\ IF AliasMissing(req[t].key)
       THEN /\ Done(t, "INVALID_ARGUMENT")
            /\ UNCHANGED hist
       ELSE LET key == Rewritten(req[t].key, req[t].uid)
                h == Log(t, "perms", <<"rebind", key>>)
            IN \E p \in Decisions :
                 IF p # "Ok"
                 THEN Done(t, p) /\ hist' = h
                 ELSE /\ hist' = [h EXCEPT ![t].rebindOk = TRUE]
                      /\ lock(t, "addRngEntropy", [loc[t] EXCEPT !.key = key])
    /\ UNCHANGED <<req, store, ops, kmVersion>>

\* generate_key: km_dev.addRngEntropy(entropy).
addRngEntropy(t) ==
    /\ pc[t] = "addRngEntropy"
    /\ \E rc \in {"Ok", "KM_ERROR"} :
         /\ hist' = Log(t, "eng", EngCall("addRngEntropy", NoBlob, "", rc, NoVal))
         /\ IF rc = "Ok" THEN Goto(t, "km_generateKey", loc[t]) ELSE Done(t, rc)
    /\ UNCHANGED <<req, store, ops, kmVersion>>

\* generate_key: km_dev.generateKey(...), then on to store_new_key with
\* Some(certificate_chain).
km_generateKey(t) ==
    /\ pc[t] = "km_generateKey"
    /\ \E rc \in {"Ok", "KM_ERROR"}, c \in 0..2 :
         /\ hist' = Log(t, "eng", EngCall("generateKey", NoBlob, "", rc,
                                           Val(0, Blob(NewMat, kmVersion))))
         /\ IF rc = "Ok"
            THEN Goto(t, "store_new_key",
                      [loc[t] EXCEPT !.blob = Blob(NewMat, kmVersion), !.chain = c])
            ELSE Done(t, rc)
    /\ UNCHANGED <<req, store, ops, kmVersion>>

\* Every key imported as raw bytes.
KeyFormat_AllRaw(alg) == "RAW"

\* import_key: the key format follows from the ALGORITHM parameter.
KeyFormat(alg) ==
    CASE alg \in {"AES", "HMAC", "TRIPLE_DES"} -> "RAW"
      [] alg \in {"RSA", "EC"} -> "PKCS8"
      [] OTHER -> "INVALID_ARGUMENT"

\* import_key going on when the rebind permission is denied.
import_key_IgnoresDenial(t) ==
    /\ pc[t] = "import_key"
    /\ IF AliasMissing(req[t].key)
       THEN /\ Done(t, "INVALID_ARGUMENT")
            /\ UNCHANGED hist
       ELSE LET key == Rewritten(req[t].key, req[t].uid)
                h == Log(t, "perms", <<"rebind", key>>)
            IN \E p \in Decisions :
                 /\ hist' = [h EXCEPT ![t].rebindOk = (p = "Ok")]
                 /\ IF KeyFormat(req[t].alg) = "INVALID_ARGUMENT"
                    THEN Done(t, "INVALID_ARGUMENT")
                    ELSE lock(t, "km_importKey", [loc[t] EXCEPT !.key = key])
    /\ UNCHANGED <<req, store, ops, kmVersion>>

\* import_key up to the engine call: alias test, namespace rewrite, rebind
\* permission, key format, engine handle.
import_key(t) ==
    /\ pc[t] = "import_key"
    /\ IF AliasMissing(req[t].key)
       THEN /\ Done(t, "INVALID_ARGUMENT")
            /\ UNCHANGED hist
       ELSE LET key == Rewritten(req[t].key, req[t].uid)
                h == Log(t, "perms", <<"rebind", key>>)
            IN \E p \in Decisions :
                 IF p # "Ok"
                 THEN Done(t, p) /\ hist' = h
                 ELSE /\ hist' = [h EXCEPT ![t].rebindOk = TRUE]
                      /\ IF KeyFormat(req[t].alg) = "INVALID_ARGUMENT"
                         THEN Done(t, "INVALID_ARGUMENT")
                         ELSE lock(t, "km_importKey", [loc[t] EXCEPT !.key = key])
    /\ UNCHANGED <<req, store, ops, kmVersion>>

\* import_key: km_dev.importKey(params, format, key_data, ...), then on to
\* store_new_key with Some(certificate_chain).
km_importKey(t) ==
    /\ pc[t] = "km_importKey"
    /\ \E rc \in {"Ok", "KM_ERROR"}, c \in 0..2 :
         /\ hist' = Log(t, "eng", EngCall("importKey", NoBlob, KeyFormat(req[t].alg), rc,
                                           Val(0, Blob(NewMat, kmVersion))))
         /\ IF rc = "Ok"
            THEN Goto(t, "store_new_key",
                      [loc[t] EXCEPT !.blob = Blob(NewMat, kmVersion), !.chain = c])
            ELSE Done(t, rc)
    /\ UNCHANGED <<req, store, ops, kmVersion>>

\* ------------------------------------------------------------ store_new_key
\* Split of km_cert_chain: the first certificate is the leaf, the rest the
\* chain; an empty rest is None.  c is the chain's length, -1 for None.
HasCert(c) == c >= 1
HasCertChain(c) == c >= 2

\* The key database calls store_new_key makes for a key outside Domain::BLOB.
DbCalls(c) ==
    <<"create_key_entry", "insert_blob">>
    \o (IF HasCert(c) THEN <<"insert_cert">> ELSE <<>>)
    \o (IF HasCertChain(c) THEN <<"insert_cert_chain">> ELSE <<>>)
    \o <<"insert_keyparameter", "rebind_alias">>

\* One key database call; each is committed when it returns.
DbCall(s, call, key, blob) ==
    LET kid == Len(s)
    IN CASE call = "create_key_entry" -> Append(s, Entry(key.domain, key.nspace))
         [] call = "insert_blob" -> [s EXCEPT ![kid].blob = blob]
         [] call = "insert_cert" -> [s EXCEPT ![kid].cert = TRUE]
         [] call = "insert_cert_chain" -> [s EXCEPT ![kid].chain = TRUE]
         [] call = "insert_keyparameter" -> [s EXCEPT ![kid].params = TRUE]
         [] call = "rebind_alias" -> rebind_alias(s, kid, key.alias, key.domain, key.nspace)

RECURSIVE DbCallsDone(_, _, _, _, _)
\* The key database after the first n calls have succeeded.
DbCallsDone(s, calls, n, key, blob) ==
    IF n = 0 THEN s
    ELSE DbCall(DbCallsDone(s, calls, n - 1, key, blob), calls[n], key, blob)

KeyMetadata(key, c) ==
    [NoResult EXCEPT !.rc = "Ok", !.key = key, !.cert = HasCert(c),
                     !.chain = HasCertChain(c)]

\* store_new_key handing back the descriptor it was given.
store_new_key_ReturnsKey(t) ==
    /\ pc[t] = "store_new_key"
    /\ LET key == loc[t].key
           c == loc[t].chain
           calls == DbCalls(c)
       IN IF key.domain = "BLOB"
          THEN /\ Finish(t, KeyMetadata(KeyDescriptor("BLOB", 0, NoAlias, loc[t].blob), c))
               /\ UNCHANGED <<store, hist>>
          ELSE \E n \in 0..Len(calls) :
                 /\ store' = DbCallsDone(store, calls, n, key, loc[t].blob)
                 /\ hist' = [hist EXCEPT ![t].muts = @ + n]
                 /\ IF n = Len(calls)
                    THEN Finish(t, KeyMetadata(key, c))
                    ELSE Done(t, "DB_ERROR")
    /\ UNCHANGED <<req, ops, kmVersion>>

\* store_new_key writing every key to the key database.
store_new_key_NoBlobCase(t) ==
    /\ pc[t] = "store_new_key"
    /\ LET key == loc[t].key
           c == loc[t].chain
           calls == DbCalls(c)
       IN \E n \in 0..Len(calls) :
            /\ store' = DbCallsDone(store, calls, n, key, loc[t].blob)
            /\ hist' = [hist EXCEPT ![t].muts = @ + n]
            /\ IF n = Len(calls)
               THEN Finish(t, KeyMetadata(KeyDescriptor("KEY_ID", Len(store) + 1,
                                                        NoAlias, NoBlob), c))
               ELSE Done(t, "DB_ERROR")
    /\ UNCHANGED <<req, ops, kmVersion>>

\* store_new_key: a Domain::BLOB key is returned to the caller, any other
\* key is written to the key database call by call; the first call that
\* fails ends the request.
store_new_key(t) ==
    /\ pc[t] = "store_new_key"
    /\ LET key == loc[t].key
           c == loc[t].chain
           calls == DbCalls(c)
       IN IF key.domain = "BLOB"
          THEN /\ Finish(t, KeyMetadata(KeyDescriptor("BLOB", 0, NoAlias, loc[t].blob), c))
               /\ UNCHANGED <<store, hist>>
          ELSE \E n \in 0..Len(calls) :
                 /\ store' = DbCallsDone(store, calls, n, key, loc[t].blob)
                 /\ hist' = [hist EXCEPT ![t].muts = @ + n]
                 /\ IF n = Len(calls)
                    THEN Finish(t, KeyMetadata(KeyDescriptor("KEY_ID", Len(store) + 1,
                                                             NoAlias, NoBlob), c))
                    ELSE Done(t, "DB_ERROR")
    /\ UNCHANGED <<req, ops, kmVersion>>

\* ------------------------------------------------------ loading a stored key
\* database::load_key_entry resolves the descriptor to a key id: a KEY_ID
\* descriptor names it, any other descriptor is looked up by alias.  0: no
\* such key.
KeyIdOf(key) ==
    IF key.domain = "KEY_ID"
    THEN IF key.nspace \in KeyIds THEN key.nspace ELSE 0
    ELSE LET hits == {k \in KeyIds : /\ store[k].domain = key.domain
                                     /\ store[k].nspace = key.nspace
                                     /\ store[k].alias = key.alias
                                     /\ key.alias # NoAlias}
         IN IF hits = {} THEN 0 ELSE CHOOSE k \in hits : TRUE

\* database::load_key_entry with the use-permission callback: fails when the
\* key does not exist or the permission is denied, else waits for the key
\* id's KeyIdGuard and returns it with the entry.
load_key_entry(t, key, next) ==
    LET kid == KeyIdOf(key)
        h == Log(t, "perms", <<"use", key>>)
    IN IF kid = 0
       THEN Done(t, "KEY_NOT_FOUND") /\ UNCHANGED hist
       ELSE \E p \in Decisions :
              IF p # "Ok"
              THEN Done(t, p) /\ hist' = h
              ELSE /\ kid \notin guards
                   /\ guards' = guards \cup {kid}
                   /\ loc' = [loc EXCEPT ![t].guard = kid, ![t].km_blob = store[kid].blob]
                   /\ hist' = [h EXCEPT ![t].kid = kid, ![t].blob0 = store[kid].blob]
                   /\ pc' = [pc EXCEPT ![t] = next]
                   /\ UNCHANGED <<result, mutex>>

\* ------------------------------------------------- upgrade_keyblob_if_required
\* The blob the protocol passes to f: blob on the first call, &upgraded_blob
\* on the second.
FArg(t) == IF loc[t].attempt = 1 THEN loc[t].km_blob ELSE loc[t].upgraded

\* upgrade_keyblob_if_required_with returns Ok((v, up)) to its caller: the
\* guard it was given is dropped, create_operation goes on to register the
\* operation, import_wrapped_key to store the key (without certificates).
ProtocolOk(t, v, up, h) ==
    /\ hist' = [h EXCEPT ![t].ret = "Ok", ![t].returned = up]
    /\ guards' = Drop(loc[t].guard)
    /\ UNCHANGED <<result, mutex>>
    /\ IF req[t].op = "createOperation"
       THEN /\ pc' = [pc EXCEPT ![t] = "register"]
            /\ loc' = [loc EXCEPT ![t].guard = 0, ![t].op = v.op]
       ELSE /\ pc' = [pc EXCEPT ![t] = "store_new_key"]
            /\ loc' = [loc EXCEPT ![t].guard = 0, ![t].blob = v.blob, ![t].chain = -1]

\* upgrade_keyblob_if_required_with returns Err(e), and so does its caller.
ProtocolErr(t, e, h) ==
    /\ hist' = [h EXCEPT ![t].ret = e]
    /\ Done(t, e)

\* upgrade_keyblob_if_required_with upgrading after any error of f(blob).
upgrade_keyblob_if_required_with_AnyError(t, rc, v, h) ==
    IF loc[t].attempt = 1
    THEN LET h1 == [h EXCEPT ![t].first = rc]
         IN IF rc = "Ok"
            THEN ProtocolOk(t, v, NoBlob, h1)
            ELSE /\ hist' = h1
                 /\ Goto(t, "km_upgradeKey", loc[t])
    ELSE LET h2 == [h EXCEPT ![t].second = rc]
         IN IF rc = "Ok"
            THEN ProtocolOk(t, v, loc[t].upgraded, h2)
            ELSE ProtocolErr(t, rc, h2)

\* upgrade_keyblob_if_required_with upgrading again when the second call of f
\* asks for it.
upgrade_keyblob_if_required_with_Again(t, rc, v, h) ==
    IF loc[t].attempt = 1
    THEN LET h1 == [h EXCEPT ![t].first = rc]
         IN CASE rc = "KEY_REQUIRES_UPGRADE" ->
                     /\ hist' = h1
                     /\ Goto(t, "km_upgradeKey", loc[t])
              [] rc = "Ok" -> ProtocolOk(t, v, NoBlob, h1)
              [] OTHER -> ProtocolErr(t, rc, h1)
    ELSE LET h2 == [h EXCEPT ![t].second = rc]
         IN CASE rc = "KEY_REQUIRES_UPGRADE" ->
                     /\ hist' = h2
                     /\ Goto(t, "km_upgradeKey", [loc[t] EXCEPT !.km_blob = loc[t].upgraded])
              [] rc = "Ok" -> ProtocolOk(t, v, loc[t].upgraded, h2)
              [] OTHER -> ProtocolErr(t, rc, h2)

\* upgrade_keyblob_if_required_with, the two matches on the result of f:
\* f has returned rc (with v when Ok); h is the history including that call.
upgrade_keyblob_if_required_with(t, rc, v, h) ==
    IF loc[t].attempt = 1
    THEN LET h1 == [h EXCEPT ![t].first = rc]
         IN CASE rc = "KEY_REQUIRES_UPGRADE" ->
                     /\ hist' = h1
                     /\ Goto(t, "km_upgradeKey", loc[t])
              [] rc = "Ok" -> ProtocolOk(t, v, NoBlob, h1)
              [] OTHER -> ProtocolErr(t, rc, h1)
    ELSE LET h2 == [h EXCEPT ![t].second = rc]
         IN IF rc = "Ok"
            THEN ProtocolOk(t, v, loc[t].upgraded, h2)
            ELSE ProtocolErr(t, rc, h2)

\* The pc of f for the handler that runs the protocol.
FPc(t) == IF req[t].op = "createOperation" THEN "begin" ELSE "km_importWrappedKey"

\* km_upgradeKey giving the key id's guard back once the engine has answered.
km_upgradeKey_DropsGuard(t) ==
    /\ pc[t] = "km_upgradeKey"
    /\ \E rc \in {"Ok", "KM_ERROR"} :
         LET up == upgradeKey(loc[t].km_blob)
             h == Log(t, "eng", EngCall("upgradeKey", loc[t].km_blob, "", rc, Val(0, up)))
         IN IF rc = "Ok"
            THEN /\ hist' = [h EXCEPT ![t].upgraded = up]
                 /\ pc' = [pc EXCEPT ![t] = "insert_blob"]
                 /\ loc' = [loc EXCEPT ![t].upgraded = up]
                 /\ guards' = Drop(loc[t].guard)
                 /\ UNCHANGED <<result, mutex>>
            ELSE ProtocolErr(t, rc, h)
    /\ UNCHANGED <<req, store, ops, kmVersion>>

\* km_upgradeKey going on to the write whatever the engine answers.
km_upgradeKey_IgnoresError(t) ==
    /\ pc[t] = "km_upgradeKey"
    /\ \E rc \in {"Ok", "KM_ERROR"} :
         LET up == upgradeKey(loc[t].km_blob)
             h == Log(t, "eng", EngCall("upgradeKey", loc[t].km_blob, "", rc, Val(0, up)))
         IN /\ hist' = [h EXCEPT ![t].upgraded = up]
            /\ Goto(t, "insert_blob", [loc[t] EXCEPT !.upgraded = up])
    /\ UNCHANGED <<req, store, ops, kmVersion>>

\* upgrade_keyblob_if_required_with: km_dev.upgradeKey(blob, params).
km_upgradeKey(t) ==
    /\ pc[t] = "km_upgradeKey"
    /\ \E rc \in {"Ok", "KM_ERROR"} :
         LET up == upgradeKey(loc[t].km_blob)
             h == Log(t, "eng", EngCall("upgradeKey", loc[t].km_blob, "", rc, Val(0, up)))
         IN IF rc = "Ok"
            THEN /\ hist' = [h EXCEPT ![t].upgraded = up]
                 /\ Goto(t, "insert_blob", [loc[t] EXCEPT !.upgraded = up])
            ELSE ProtocolErr(t, rc, h)
    /\ UNCHANGED <<req, store, ops, kmVersion>>

\* insert_blob that does not write: the upgraded blob is used but not stored.
insert_blob_NoPersist(t) ==
    /\ pc[t] = "insert_blob"
    /\ IF loc[t].guard = 0
       THEN Goto(t, FPc(t), [loc[t] EXCEPT !.attempt = 2])
       ELSE /\ guards' = Drop(loc[t].guard)
            /\ pc' = [pc EXCEPT ![t] = FPc(t)]
            /\ loc' = [loc EXCEPT ![t].guard = 0, ![t].attempt = 2]
            /\ UNCHANGED <<result, mutex>>
    /\ UNCHANGED <<req, hist, store, ops, kmVersion>>

\* insert_blob that writes the blob it was called with, not the upgraded one.
insert_blob_Original(t) ==
    /\ pc[t] = "insert_blob"
    /\ IF loc[t].guard = 0
       THEN /\ Goto(t, FPc(t), [loc[t] EXCEPT !.attempt = 2])
            /\ UNCHANGED <<store, hist>>
       ELSE \E rc \in {"Ok", "DB_ERROR"} :
              IF rc = "Ok"
              THEN /\ store' = [store EXCEPT ![loc[t].guard].blob = loc[t].km_blob]
                   /\ hist' = [hist EXCEPT ![t].muts = @ + 1, ![t].persisted = rc]
                   /\ guards' = Drop(loc[t].guard)
                   /\ pc' = [pc EXCEPT ![t] = FPc(t)]
                   /\ loc' = [loc EXCEPT ![t].guard = 0, ![t].attempt = 2]
                   /\ UNCHANGED <<result, mutex>>
              ELSE /\ ProtocolErr(t, rc, [hist EXCEPT ![t].persisted = rc])
                   /\ UNCHANGED store
    /\ UNCHANGED <<req, ops, kmVersion>>

\* insert_blob lending the guard: the caller still holds it when f runs again.
insert_blob_KeepsGuard(t) ==
    /\ pc[t] = "insert_blob"
    /\ IF loc[t].guard = 0
       THEN /\ Goto(t, FPc(t), [loc[t] EXCEPT !.attempt = 2])
            /\ UNCHANGED <<store, hist>>
       ELSE \E rc \in {"Ok", "DB_ERROR"} :
              IF rc = "Ok"
              THEN /\ store' = [store EXCEPT ![loc[t].guard].blob = loc[t].upgraded]
                   /\ hist' = [hist EXCEPT ![t].muts = @ + 1, ![t].persisted = rc]
                   /\ Goto(t, FPc(t), [loc[t] EXCEPT !.attempt = 2])
              ELSE /\ ProtocolErr(t, rc, [hist EXCEPT ![t].persisted = rc])
                   /\ UNCHANGED store
    /\ UNCHANGED <<req, ops, kmVersion>>

\* upgrade_keyblob_if_required_with: key_id_guard.map_or(Ok(()), ...), the
\* upgraded blob replaces the stored one if the caller passed a guard; the
\* guard is consumed here.  Then f runs again.
insert_blob(t) ==
    /\ pc[t] = "insert_blob"
    /\ IF loc[t].guard = 0
       THEN /\ Goto(t, FPc(t), [loc[t] EXCEPT !.attempt = 2])
            /\ UNCHANGED <<store, hist>>
       ELSE \E rc \in {"Ok", "DB_ERROR"} :
              IF rc = "Ok"
              THEN /\ store' = [store EXCEPT ![loc[t].guard].blob = loc[t].upgraded]
                   /\ hist' = [hist EXCEPT ![t].muts = @ + 1, ![t].persisted = rc]
                   /\ guards' = Drop(loc[t].guard)
                   /\ pc' = [pc EXCEPT ![t] = FPc(t)]
                   /\ loc' = [loc EXCEPT ![t].guard = 0, ![t].attempt = 2]
                   /\ UNCHANGED <<result, mutex>>
              ELSE /\ ProtocolErr(t, rc, [hist EXCEPT ![t].persisted = rc])
                   /\ UNCHANGED store
    /\ UNCHANGED <<req, ops, kmVersion>>

\* ----------------------------------------------------------- createOperation
\* The keys clients use: stored keys by key id, and blobs the engine has
\* produced so far.
UseKeys ==
    {KeyDescriptor("KEY_ID", k, NoAlias, NoBlob) : k \in KeyIds}
    \cup {KeyDescriptor("BLOB", 0, NoAlias, b) :
             b \in {NoBlob} \cup {Blob(ClientMat, v) : v \in 0..kmVersion}}

\* IKeystoreSecurityLevel::createOperation
createOperation(t) ==
    \E u \in Uids, pu \in BOOLEAN, key \in UseKeys :
        Call(t, [NoReq EXCEPT !.op = "createOperation", !.uid = u, !.key = key,
                              !.purpose = pu], "create_operation")

\* create_operation letting go of the guard it got with the entry.
create_operation_DropsGuard(t) ==
    /\ pc[t] = "create_operation"
    /\ IF req[t].key.domain = "BLOB"
       THEN /\ hist' = Log(t, "perms", <<"use", req[t].key>>)
            /\ \E p \in Decisions :
                 IF p # "Ok"
                 THEN Done(t, p)
                 ELSE IF req[t].key.blob = NoBlob
                 THEN Done(t, "SYSTEM_ERROR")
                 ELSE Goto(t, "co_purpose", [loc[t] EXCEPT !.km_blob = req[t].key.blob])
       ELSE LET kid == KeyIdOf(req[t].key)
                h == Log(t, "perms", <<"use", req[t].key>>)
            IN IF kid = 0
               THEN Done(t, "KEY_NOT_FOUND") /\ UNCHANGED hist
               ELSE \E p \in Decisions :
                      IF p # "Ok"
                      THEN Done(t, p) /\ hist' = h
                      ELSE /\ kid \notin guards
                           /\ hist' = [h EXCEPT ![t].kid = kid,
                                                ![t].blob0 = store[kid].blob]
                           /\ Goto(t, "co_purpose",
                                   [loc[t] EXCEPT !.km_blob = store[kid].blob])
    /\ UNCHANGED <<req, store, ops, kmVersion>>

\* create_operation, resolution of the key to (km_blob, key_id_guard).
create_operation(t) ==
    /\ pc[t] = "create_operation"
    /\ IF req[t].key.domain = "BLOB"
       THEN /\ hist' = Log(t, "perms", <<"use", req[t].key>>)
            /\ \E p \in Decisions :
                 IF p # "Ok"
                 THEN Done(t, p)
                 ELSE IF req[t].key.blob = NoBlob
                 THEN Done(t, "SYSTEM_ERROR")
                 ELSE Goto(t, "co_purpose", [loc[t] EXCEPT !.km_blob = req[t].key.blob])
       ELSE load_key_entry(t, req[t].key, "co_purpose")
    /\ UNCHANGED <<req, store, ops, kmVersion>>

\* co_purpose going on to begin without a PURPOSE parameter.
co_purpose_NoPurposeTest(t) ==
    /\ pc[t] = "co_purpose"
    /\ LET rc == IF loc[t].km_blob = NoBlob THEN "SYSTEM_ERROR" ELSE "Ok"
       IN IF rc # "Ok"
          THEN Done(t, rc)
          ELSE lock(t, "begin", [loc[t] EXCEPT !.attempt = 1])
    /\ UNCHANGED <<req, hist, store, ops, kmVersion>>

\* create_operation: take_km_blob of the loaded entry, the PURPOSE parameter,
\* the engine handle.
co_purpose(t) ==
    /\ pc[t] = "co_purpose"
    /\ LET rc == IF loc[t].km_blob = NoBlob THEN "SYSTEM_ERROR"
                 ELSE IF ~req[t].purpose THEN "INVALID_ARGUMENT"
                 ELSE "Ok"
       IN IF rc # "Ok"
          THEN Done(t, rc)
          ELSE lock(t, "begin", [loc[t] EXCEPT !.attempt = 1])
    /\ UNCHANGED <<req, hist, store, ops, kmVersion>>

\* Operation handles the engine can hand out.
FreeOps ==
    {o \in 1..MaxOps : (\A x \in ops : x.op # o) /\ (\A t \in Threads : loc[t].op # o)}

\* The engine calls of a history that were answered rc.
Answered(h, rc) == SelectSeq(h.eng, LAMBDA e : e.rc = rc)

\* What the engine answers to begin(purpose, blob, ...); it is out of
\* operation slots at most MaxPrune times per request.
BeginAnswers(t, blob) ==
    IF Stale(blob)
    THEN {"KEY_REQUIRES_UPGRADE", "KM_ERROR"}
    ELSE {"Ok", "OkNone", "KM_ERROR"}
         \cup (IF Len(Answered(hist[t], "TOO_MANY_OPERATIONS")) < MaxPrune
               THEN {"TOO_MANY_OPERATIONS"} ELSE {})

\* begin calling the engine again without pruning.
begin_NoPrune(t) ==
    /\ pc[t] = "begin"
    /\ \E a \in BeginAnswers(t, FArg(t)), o \in 0..MaxOps :
         LET rc == IF a = "OkNone" THEN "Ok" ELSE a
             h == Log(t, "eng", EngCall("begin", FArg(t), "", rc, Val(o, NoBlob)))
         IN /\ IF a = "Ok"
               THEN FreeOps # {} /\ o = CHOOSE x \in FreeOps : TRUE
               ELSE o = 0
            /\ IF rc = "TOO_MANY_OPERATIONS"
               THEN hist' = h /\ Goto(t, "begin", loc[t])
               ELSE upgrade_keyblob_if_required_with(t, rc, Val(o, NoBlob), h)
    /\ UNCHANGED <<req, store, ops, kmVersion>>

\* begin with the pruning loop around the protocol: an attempt after the
\* upgrade that asks for an upgrade starts the protocol again.
begin_FreshProtocol(t) ==
    /\ pc[t] = "begin"
    /\ \E a \in BeginAnswers(t, FArg(t)), o \in 0..MaxOps :
         LET rc == IF a = "OkNone" THEN "Ok" ELSE a
             h == Log(t, "eng", EngCall("begin", FArg(t), "", rc, Val(o, NoBlob)))
         IN /\ IF a = "Ok"
               THEN FreeOps # {} /\ o = CHOOSE x \in FreeOps : TRUE
               ELSE o = 0
            /\ IF rc = "TOO_MANY_OPERATIONS"
               THEN hist' = h /\ Goto(t, "prune", loc[t])
               ELSE IF rc = "KEY_REQUIRES_UPGRADE" /\ loc[t].attempt = 2
               THEN /\ hist' = [h EXCEPT ![t].second = rc]
                    /\ Goto(t, "km_upgradeKey",
                            [loc[t] EXCEPT !.km_blob = loc[t].upgraded])
               ELSE upgrade_keyblob_if_required_with(t, rc, Val(o, NoBlob), h)
    /\ UNCHANGED <<req, store, ops, kmVersion>>

\* begin giving up after two too-many-operations answers.
begin_Capped(t) ==
    /\ pc[t] = "begin"
    /\ \E a \in BeginAnswers(t, FArg(t)), o \in 0..MaxOps :
         LET rc == IF a = "OkNone" THEN "Ok" ELSE a
             h == Log(t, "eng", EngCall("begin", FArg(t), "", rc, Val(o, NoBlob)))
         IN /\ IF a = "Ok"
               THEN FreeOps # {} /\ o = CHOOSE x \in FreeOps : TRUE
               ELSE o = 0
            /\ IF rc = "TOO_MANY_OPERATIONS" /\ Len(Answered(h[t], rc)) <= 2
               THEN hist' = h /\ Goto(t, "prune", loc[t])
               ELSE upgrade_keyblob_if_required_with(t, rc, Val(o, NoBlob), h)
    /\ UNCHANGED <<req, store, ops, kmVersion>>

\* create_operation, the closure passed to the protocol: km_dev.begin; on
\* TOO_MANY_OPERATIONS prune and call begin again, anything else is the
\* closure's result.
begin(t) ==
    /\ pc[t] = "begin"
    /\ \E a \in BeginAnswers(t, FArg(t)), o \in 0..MaxOps :
         LET rc == IF a = "OkNone" THEN "Ok" ELSE a
             h == Log(t, "eng", EngCall("begin", FArg(t), "", rc, Val(o, NoBlob)))
         IN /\ IF a = "Ok"
               THEN FreeOps # {} /\ o = CHOOSE x \in FreeOps : TRUE
               ELSE o = 0
            /\ IF rc = "TOO_MANY_OPERATIONS"
               THEN hist' = h /\ Goto(t, "prune", loc[t])
               ELSE upgrade_keyblob_if_required_with(t, rc, Val(o, NoBlob), h)
    /\ UNCHANGED <<req, store, ops, kmVersion>>

\* prune called with a uid that is not the caller's.
prune_OtherUid(t) ==
    /\ pc[t] = "prune"
    /\ \E u \in Uids \ {req[t].uid} :
         \E rc \in {"Ok", "SYSTEM_ERROR", "KEY_REQUIRES_UPGRADE"} :
           LET h == [Log(t, "prunes", u) EXCEPT ![t].pruned = Append(@, rc)]
           IN IF rc = "Ok"
              THEN /\ \E v \in {{}} \cup {{x} : x \in {y \in ops : y.uid = u}} :
                        ops' = ops \ v
                   /\ hist' = h
                   /\ Goto(t, "begin", loc[t])
              ELSE /\ upgrade_keyblob_if_required_with(t, rc, Val(0, NoBlob), h)
                   /\ UNCHANGED ops
    /\ UNCHANGED <<req, store, kmVersion>>

\* prune whose error is dropped: the loop goes on to the next begin.
prune_ErrorDropped(t) ==
    /\ pc[t] = "prune"
    /\ \E rc \in {"Ok", "SYSTEM_ERROR", "KEY_REQUIRES_UPGRADE"} :
         LET h == [Log(t, "prunes", req[t].uid) EXCEPT ![t].pruned = Append(@, rc)]
         IN IF rc = "Ok"
            THEN /\ \E v \in {{}} \cup {{x} : x \in {y \in ops : y.uid = req[t].uid}} :
                      ops' = ops \ v
                 /\ hist' = h
                 /\ Goto(t, "begin", loc[t])
            ELSE /\ hist' = h /\ Goto(t, "begin", loc[t])
                 /\ UNCHANGED ops
    /\ UNCHANGED <<req, store, kmVersion>>

\* create_operation, in the closure: self.operation_db.prune(caller_uid)?.
\* The operation database removes at most one operation of that uid.
prune(t) ==
    /\ pc[t] = "prune"
    /\ \E rc \in {"Ok", "SYSTEM_ERROR", "KEY_REQUIRES_UPGRADE"} :
         LET h == [Log(t, "prunes", req[t].uid) EXCEPT ![t].pruned = Append(@, rc)]
         IN IF rc = "Ok"
            THEN /\ \E v \in {{}} \cup {{x} : x \in {y \in ops : y.uid = req[t].uid}} :
                      ops' = ops \ v
                 /\ hist' = h
                 /\ Goto(t, "begin", loc[t])
            ELSE /\ upgrade_keyblob_if_required_with(t, rc, Val(0, NoBlob), h)
                 /\ UNCHANGED ops
    /\ UNCHANGED <<req, store, kmVersion>>

\* register entering the operation before looking whether there is one.
register_BeforeTest(t) ==
    /\ pc[t] = "register"
    /\ ops' = ops \cup {[op |-> loc[t].op, uid |-> req[t].uid]}
    /\ IF loc[t].op = 0
       THEN Done(t, "SYSTEM_ERROR")
       ELSE \E b \in BinderResults :
              IF b = "Ok"
              THEN Finish(t, [NoResult EXCEPT !.rc = "Ok", !.op = loc[t].op])
              ELSE Done(t, b)
    /\ UNCHANGED <<req, hist, store, kmVersion>>

\* create_operation after the protocol: the operation is registered for the
\* caller and wrapped in a binder object.
register(t) ==
    /\ pc[t] = "register"
    /\ IF loc[t].op = 0
       THEN Done(t, "SYSTEM_ERROR") /\ UNCHANGED ops
       ELSE /\ ops' = ops \cup {[op |-> loc[t].op, uid |-> req[t].uid]}
            /\ \E b \in BinderResults :
                 IF b = "Ok"
                 THEN Finish(t, [NoResult EXCEPT !.rc = "Ok", !.op = loc[t].op])
                 ELSE Done(t, b)
    /\ UNCHANGED <<req, hist, store, kmVersion>>

\* ---------------------------------------------------------- importWrappedKey
\* IKeystoreSecurityLevel::importWrappedKey
importWrappedKey(t) ==
    \E u \in Uids, key \in NewKeys({NoBlob, WrappedData}), w \in UseKeys,
       au \in SUBSET Authenticators :
        Call(t, [NoReq EXCEPT !.op = "importWrappedKey", !.uid = u, !.key = key,
                              !.wkey = w, !.auths = au], "import_wrapped_key")

\* import_wrapped_key up to the load of the wrapping key: alias test, no
\* wrapping key in Domain::BLOB, wrapped data present, namespace rewrite,
\* rebind permission.
import_wrapped_key(t) ==
    /\ pc[t] = "import_wrapped_key"
    /\ IF \/ AliasMissing(req[t].key)
          \/ req[t].wkey.domain = "BLOB"
          \/ req[t].key.blob = NoBlob
       THEN /\ Done(t, "INVALID_ARGUMENT")
            /\ UNCHANGED hist
       ELSE LET key == Rewritten(req[t].key, req[t].uid)
                h == Log(t, "perms", <<"rebind", key>>)
            IN \E p \in Decisions :
                 IF p # "Ok"
                 THEN Done(t, p) /\ hist' = h
                 ELSE /\ hist' = [h EXCEPT ![t].rebindOk = TRUE]
                      /\ Goto(t, "load_wrapping_key", [loc[t] EXCEPT !.key = key])
    /\ UNCHANGED <<req, store, ops, kmVersion>>

\* import_wrapped_key: load_key_entry(wrapping_key, ...).
load_wrapping_key(t) ==
    /\ pc[t] = "load_wrapping_key"
    /\ load_key_entry(t, req[t].wkey, "iwk_authenticators")
    /\ UNCHANGED <<req, store, ops, kmVersion>>

\* iwk_authenticators asking for the password authenticator only.
iwk_authenticators_PasswordOnly(t) ==
    /\ pc[t] = "iwk_authenticators"
    /\ LET rc == IF loc[t].km_blob = NoBlob THEN "SYSTEM_ERROR"
                 ELSE IF "PASSWORD" \notin req[t].auths THEN "INVALID_ARGUMENT"
                 ELSE "Ok"
       IN IF rc # "Ok"
          THEN Done(t, rc)
          ELSE lock(t, "km_importWrappedKey", [loc[t] EXCEPT !.attempt = 1])
    /\ UNCHANGED <<req, hist, store, ops, kmVersion>>

\* import_wrapped_key: km_blob() of the wrapping key, the password and the
\* fingerprint authenticator, the engine handle.
iwk_authenticators(t) ==
    /\ pc[t] = "iwk_authenticators"
    /\ LET rc == IF loc[t].km_blob = NoBlob THEN "SYSTEM_ERROR"
                 ELSE IF "PASSWORD" \notin req[t].auths THEN "INVALID_ARGUMENT"
                 ELSE IF "FINGERPRINT" \notin req[t].auths THEN "INVALID_ARGUMENT"
                 ELSE "Ok"
       IN IF rc # "Ok"
          THEN Done(t, rc)
          ELSE lock(t, "km_importWrappedKey", [loc[t] EXCEPT !.attempt = 1])
    /\ UNCHANGED <<req, hist, store, ops, kmVersion>>

\* import_wrapped_key, the closure passed to the protocol: it calls
\* km_dev.importWrappedKey with wrapping_key_blob, the blob loaded from the
\* database, whatever blob the protocol passes in.
km_importWrappedKey(t) ==
    /\ pc[t] = "km_importWrappedKey"
    /\ LET wrapping_key_blob == loc[t].km_blob
       IN \E rc \in (IF Stale(wrapping_key_blob)
                     THEN {"KEY_REQUIRES_UPGRADE", "KM_ERROR"}
                     ELSE {"Ok", "KM_ERROR"}) :
            LET out == Val(0, Blob(NewMat, kmVersion))
            IN upgrade_keyblob_if_required_with(t, rc, out,
                   Log(t, "eng", EngCall("importWrappedKey", wrapping_key_blob, "", rc, out)))
    /\ UNCHANGED <<req, store, ops, kmVersion>>

\* ---------------------------------------------------------------- the system
\* The engine is replaced by a newer version.
EngineUpdate ==
    /\ kmVersion < MaxVersion
    /\ kmVersion' = kmVersion + 1
    /\ UNCHANGED <<pc, req, loc, hist, result, store, guards, ops, mutex>>

Step(t) ==
    \/ generateKey(t)
    \/ generate_key(t)
    \/ addRngEntropy(t)
    \/ km_generateKey(t)
    \/ importKey(t)
    \/ import_key(t)
    \/ km_importKey(t)
    \/ importWrappedKey(t)
    \/ import_wrapped_key(t)
    \/ load_wrapping_key(t)
    \/ iwk_authenticators(t)
    \/ km_importWrappedKey(t)
    \/ store_new_key(t)
    \/ createOperation(t)
    \/ create_operation(t)
    \/ co_purpose(t)
    \/ begin(t)
    \/ prune(t)
    \/ km_upgradeKey(t)
    \/ insert_blob(t)
    \/ register(t)
    \/ get_interface(t)

\* One binder thread serves one call.
Next == Step(1) \/ EngineUpdate

Spec == Init /\ [][Next]_vars

\* A binder thread that has started a handler runs it to its return.
Running(t) == pc[t] \notin {"idle", "done"} /\ Step(t)

\* The one-thread system with its thread scheduled.
SpecFair == Spec /\ WF_vars(Running(1))

\* Two binder threads serve one call each, at the same time: thread t serves
\* principal t, which uses a stored key for an operation or to unwrap a key
\* it will keep itself.  Thread 1 uses key 1, thread 2 the same key or key 2;
\* either may leave out the purpose of an operation on its own key.
\* The engine is out of operation slots at most once per request.
ConcKeys(t) == 1..t

\* The principals asking: thread t serves principal t, and thread 2 also
\* principal 1 when it is about the other key.
ConcUids(t, k) == IF k = t THEN 1..t ELSE {t}

ConcRequests(t) ==
    UNION {{[NoReq EXCEPT !.op = "createOperation", !.uid = u, !.purpose = TRUE,
                          !.key = KeyDescriptor("KEY_ID", k, NoAlias, NoBlob)] :
               u \in ConcUids(t, k)} : k \in ConcKeys(t)}
    \cup
    {[NoReq EXCEPT !.op = "createOperation", !.uid = t, !.purpose = FALSE,
                   !.key = KeyDescriptor("KEY_ID", t, NoAlias, NoBlob)]}
    \cup
    {[NoReq EXCEPT !.op = "importWrappedKey", !.uid = t,
                   !.key = KeyDescriptor("BLOB", n, NoAlias, WrappedData),
                   !.wkey = KeyDescriptor("KEY_ID", k, NoAlias, NoBlob),
                   !.auths = Authenticators] : k \in ConcKeys(t), n \in Nspaces}

ConcStep(t) ==
    \/ createOperation(t) /\ req'[t] \in ConcRequests(t)
    \/ create_operation(t)
    \/ co_purpose(t)
    \/ begin(t) /\ Len(Answered(hist'[t], "TOO_MANY_OPERATIONS")) <= 1
    \/ prune(t)
    \/ register(t)
    \/ importWrappedKey(t) /\ req'[t] \in ConcRequests(t)
    \/ import_wrapped_key(t)
    \/ load_wrapping_key(t)
    \/ iwk_authenticators(t)
    \/ km_importWrappedKey(t)
    \/ store_new_key(t)
    \/ km_upgradeKey(t)
    \/ insert_blob(t)
    \/ get_interface(t)

NextConc == (\E t \in Threads : ConcStep(t)) \/ EngineUpdate

SpecConc == Init /\ [][NextConc]_vars

\* =================================================================== claims
Creation(t) == req[t].op \in Creations
Failed(t, rc) == pc[t] = "done" /\ result[t].rc = rc

\* C1: a creation request for a key outside Domain::BLOB without alias
\* fails with INVALID_ARGUMENT, and it makes no engine call, no permission
\* check and no change to the key database.
C1_AliasRequired ==
    \A t \in Threads :
        (Creation(t) /\ AliasMissing(req[t].key)) =>
            /\ pc[t] = "done" => result[t].rc = "INVALID_ARGUMENT"
            /\ hist[t].eng = <<>>
            /\ hist[t].perms = <<>>
            /\ hist[t].muts = 0
            /\ store = InitStore

\* An importWrappedKey for an APP key without alias has been turned down.
C1_Witness ==
    \E t \in Threads :
        /\ req[t].op = "importWrappedKey"
        /\ req[t].key.domain = "APP"
        /\ req[t].key.alias = NoAlias
        /\ Failed(t, "INVALID_ARGUMENT")

\* C2: a creation request makes no engine call and no change to the key
\* database before its rebind permission check, made on the rewritten
\* descriptor, has succeeded; when rebind is denied the request fails with
\* the permission error and engine and key database are untouched.
C2_RebindFirst ==
    \A t \in Threads :
        Creation(t) =>
            /\ ~hist[t].rebindOk =>
                   /\ hist[t].eng = <<>>
                   /\ hist[t].muts = 0
                   /\ store = InitStore
            /\ hist[t].perms # <<>> =>
                   hist[t].perms[1] = <<"rebind", Rewritten(req[t].key, req[t].uid)>>
            /\ (pc[t] = "done" /\ hist[t].perms # <<>> /\ ~hist[t].rebindOk) =>
                   result[t].rc = "PERMISSION_DENIED"

\* A generateKey for an APP key of another namespace was denied rebind on the
\* rewritten descriptor.
C2_Witness ==
    \E t \in Threads :
        /\ req[t].op = "generateKey"
        /\ req[t].key.domain = "APP"
        /\ req[t].key.nspace # req[t].uid
        /\ hist[t].perms = <<<<"rebind", Rewritten(req[t].key, req[t].uid)>>>>
        /\ Failed(t, "PERMISSION_DENIED")
        /\ hist[t].eng = <<>>

\* ---------------------------------------------------- the upgrade protocol
Upgrade == "KEY_REQUIRES_UPGRADE"
Calls(h, c) == SelectSeq(h.eng, LAMBDA e : e.call = c)

\* The upgrade-required that started the upgrade was an answer of the engine
\* (not an error of prune).
EngineSaidUpgrade(h) ==
    \E i \in 2..Len(h.eng) : h.eng[i].call = "upgradeKey" /\ h.eng[i - 1].rc = Upgrade

\* The step in which thread t's upgrade_keyblob_if_required_with returns.
Returns(t) == hist[t].ret = "none" /\ hist'[t].ret # "none"

\* C3: when the engine answers the first attempt on a stored key with
\* upgrade-required and the second attempt succeeds, the blob stored for the
\* key id when the protocol returns is the blob upgradeKey returned, not the
\* blob that was loaded.
C3_UpgradedBlobPersisted ==
    [][\A t \in Threads :
          (/\ Returns(t)
           /\ hist'[t].kid # 0
           /\ hist'[t].first = Upgrade
           /\ EngineSaidUpgrade(hist'[t])
           /\ hist'[t].second = "Ok") =>
              /\ store'[hist'[t].kid].blob = hist'[t].upgraded
              /\ store'[hist'[t].kid].blob # hist'[t].blob0]_vars

\* createOperation on a stored key got an operation on its second begin.
C3_Witness ==
    \E t \in Threads :
        /\ req[t].op = "createOperation"
        /\ pc[t] = "register"
        /\ hist[t].kid # 0
        /\ EngineSaidUpgrade(hist[t])
        /\ hist[t].second = "Ok"
        /\ store[hist[t].kid].blob = hist[t].upgraded
        /\ hist[t].upgraded # hist[t].blob0

\* Both attempts have failed: upgrade-required, then any error.
BothFail(t) ==
    /\ Returns(t)
    /\ hist'[t].kid # 0
    /\ hist'[t].first = Upgrade
    /\ hist'[t].second \notin {"none", "Ok"}

\* The protocol fails after upgrade-required without a second attempt.
FailsBeforeRetry(t) ==
    /\ Returns(t)
    /\ hist'[t].kid # 0
    /\ hist'[t].first = Upgrade
    /\ hist'[t].second = "none"

\* C4 as stated: when both attempts fail, the blob stored for the key id is
\* the blob stored before the call.
C4_StoredBlobUnchanged ==
    [][\A t \in Threads :
          BothFail(t) => store'[hist'[t].kid].blob = hist'[t].blob0]_vars

\* C4, amended: when both attempts fail, the upgraded blob written between
\* them stays: the stored blob is the upgraded blob or a later upgrade of
\* it, and differs from the blob stored before the call whenever upgradeKey
\* returned a different blob.  The stored blob is the one stored before the
\* call when the protocol fails at upgradeKey or at the write.
C4_UpgradeStays ==
    [][\A t \in Threads :
          /\ BothFail(t) =>
                LET b == store'[hist'[t].kid].blob
                    up == hist'[t].upgraded
                IN /\ b.mat = up.mat
                   /\ b.ver >= up.ver
                   /\ up # hist'[t].blob0 => b # hist'[t].blob0
          /\ FailsBeforeRetry(t) =>
                store'[hist'[t].kid].blob = hist'[t].blob0]_vars

\* Both attempts on a stored key have failed and the stored blob is the
\* upgraded one.
C4_Witness ==
    \E t \in Threads :
        /\ pc[t] = "done"
        /\ hist[t].kid # 0
        /\ hist[t].first = Upgrade
        /\ hist[t].second = "KM_ERROR"
        /\ hist[t].upgraded # hist[t].blob0
        /\ store[hist[t].kid].blob = hist[t].upgraded

\* C5: after a successful upgradeKey, importWrappedKey calls the engine's
\* importWrappedKey with the upgraded wrapping key blob.
C5_RetryWithUpgradedBlob ==
    \A t \in Threads :
        req[t].op = "importWrappedKey" =>
            \A i \in 1..Len(hist[t].eng) :
                (/\ hist[t].eng[i].call = "importWrappedKey"
                 /\ \E j \in 1..(i - 1) : /\ hist[t].eng[j].call = "upgradeKey"
                                          /\ hist[t].eng[j].rc = "Ok") =>
                    hist[t].eng[i].blob = hist[t].upgraded

\* C6, what holds at every moment of a request: upgradeKey is called exactly
\* when f(blob) returned upgrade-required; after any other result there is no
\* second attempt and no write, the protocol returns that result, and the
\* upgraded blob it returns is None.
C6_State(t) ==
    LET h == hist[t]
        ups == Len(Calls(h, "upgradeKey"))
    IN /\ ups > 0 => h.first = Upgrade
       /\ h.first = Upgrade => (pc[t] = "km_upgradeKey" \/ ups = 1)
       /\ h.first \notin {"none", Upgrade} =>
             /\ ups = 0
             /\ h.second = "none"
             /\ loc[t].attempt # 2
             /\ h.persisted = "none"
             /\ h.ret = h.first
             /\ h.returned = NoBlob
             /\ h.first # "Ok" => (pc[t] = "done" /\ result[t].rc = h.first)

\* C6: the upgrade-retry protocol calls upgradeKey if and only if the first
\* attempt returns upgrade-required; otherwise it returns the first attempt's
\* result with None, and the stored blob is the one that was loaded.
C6_UpgradeOnlyWhenRequired ==
    [][\A t \in Threads :
          /\ C6_State(t)'
          /\ (/\ hist[t].first = "none"
              /\ hist'[t].first \notin {"none", Upgrade}
              /\ hist'[t].kid # 0) =>
                 store'[hist'[t].kid].blob = hist'[t].blob0]_vars

\* A request on a stored key whose first attempt failed with another error
\* has returned that error.
C6_Witness ==
    \E t \in Threads :
        /\ hist[t].kid # 0
        /\ hist[t].first = "KM_ERROR"
        /\ Failed(t, "KM_ERROR")
        /\ Len(hist[t].eng) = 1
        /\ store[hist[t].kid].blob = hist[t].blob0

\* ----------------------------------------------------------- key persistence
\* The blob the engine returned to a creation request.
EngineBlob(t) == hist[t].eng[Len(hist[t].eng)].out.blob

Stored(t) ==
    /\ result[t].key.domain = "KEY_ID"
    /\ KeyIdOf(result[t].key) # 0
    /\ store[KeyIdOf(result[t].key)].blob = EngineBlob(t)

\* C7 as stated: every successful creation returns a KEY_ID descriptor, and
\* the entry of that key id holds the blob the engine returned.
C7_ReturnsKeyId ==
    \A t \in Threads : (Creation(t) /\ Failed(t, "Ok")) => Stored(t)

\* C7, amended: every successful creation of a key outside Domain::BLOB
\* returns a KEY_ID descriptor, and the entry of that key id holds the blob
\* the engine returned.
C7_StoredKeyReturnsKeyId ==
    \A t \in Threads :
        (Creation(t) /\ Failed(t, "Ok") /\ req[t].key.domain # "BLOB") => Stored(t)

\* An importKey for an APP key has stored the imported key.
C7_Witness ==
    \E t \in Threads :
        /\ req[t].op = "importKey"
        /\ req[t].key.domain = "APP"
        /\ Failed(t, "Ok")
        /\ Stored(t)
        /\ EngineBlob(t) # NoBlob

\* C8: when a key database call of store_new_key fails, the key database is
\* as it was before the request, and no entry has a blob but no alias.
C8_AllOrNothing ==
    \A t \in Threads :
        (Creation(t) /\ Failed(t, "DB_ERROR") /\ hist[t].persisted # "DB_ERROR") =>
            /\ store = InitStore
            /\ \A k \in KeyIds : store[k].blob # NoBlob => store[k].alias # NoAlias

\* ------------------------------------------------------------------ pruning
\* The engine's first answers to this request were N times too-many-operations
\* to begin, then an operation.
PrunedThenBegun(h, N) ==
    /\ Len(h.eng) > N
    /\ \A i \in 1..N : h.eng[i].call = "begin" /\ h.eng[i].rc = "TOO_MANY_OPERATIONS"
    /\ h.eng[N + 1].call = "begin"
    /\ h.eng[N + 1].rc = "Ok"
    /\ h.eng[N + 1].out.op # 0

\* C9: when the engine answers begin with too-many-operations N times and
\* then with an operation, createOperation has made N prune calls, all for
\* the caller, and N + 1 begin calls, and the operation is registered for the
\* caller.
C9_PruneEachTime ==
    \A t \in Threads : \A N \in 0..MaxPrune :
        (req[t].op = "createOperation" /\ PrunedThenBegun(hist[t], N)) =>
            /\ hist[t].prunes = [i \in 1..N |-> req[t].uid]
            /\ Len(hist[t].eng) = N + 1
            /\ pc[t] \in {"register", "done"}
            /\ pc[t] = "done" =>
                  [op |-> hist[t].eng[N + 1].out.op, uid |-> req[t].uid] \in ops

\* The fourth begin of a createOperation succeeded, after three prunes.
C9_Witness ==
    \E t \in Threads :
        /\ PrunedThenBegun(hist[t], 3)
        /\ Len(hist[t].prunes) = 3
        /\ Failed(t, "Ok")
        /\ [op |-> result[t].op, uid |-> req[t].uid] \in ops

\* ------------------------------------------------------------- key id guards
\* Thread t is inside its read-modify-write span on key id k: it has loaded
\* the entry and has neither returned nor written the upgraded blob.
SpanPcs == {"co_purpose", "get_interface", "begin", "prune", "iwk_authenticators",
            "km_importWrappedKey", "km_upgradeKey", "insert_blob"}
InSpan(t, k) == hist[t].kid = k /\ pc[t] \in SpanPcs /\ loc[t].attempt # 2

\* Thread t is about to load the entry of key id k.
Loading(t, k) ==
    \/ pc[t] = "create_operation" /\ req[t].key.domain # "BLOB" /\ KeyIdOf(req[t].key) = k
    \/ pc[t] = "load_wrapping_key" /\ KeyIdOf(req[t].wkey) = k

\* Thread t loads the entry of key id k and gets its guard.
Acquire(t, k) == (create_operation(t) \/ load_wrapping_key(t)) /\ loc'[t].guard = k

\* Spans on one key id exclude each other, the guard of a key id is held
\* exactly during a span on it, and a load waits for no other key id's span.
C10_State ==
    /\ \A k \in KeyIds : \A t, u \in Threads :
          (t # u /\ InSpan(t, k)) => ~InSpan(u, k)
    /\ guards = {k \in KeyIds : \E t \in Threads : InSpan(t, k)}
    /\ \A k \in KeyIds : \A t \in Threads :
          (Loading(t, k) /\ \A u \in Threads \ {t} : ~InSpan(u, k)) =>
              ENABLED Acquire(t, k)

\* C10: the read-modify-write spans of two concurrent requests on the same
\* stored key id never overlap; every change of a stored blob is the write
\* of a request inside its span, and the blob written is the engine's
\* upgrade of the blob stored at that moment; a request waits only for a
\* span on the key id it loads.
C10_SpansSerialize ==
    [][/\ C10_State
       /\ C10_State'
       /\ \A k \in KeyIds :
             store'[k].blob # store[k].blob =>
                \E t \in Threads :
                    LET e == hist[t].eng[Len(hist[t].eng)]
                    IN /\ InSpan(t, k)
                       /\ pc[t] = "insert_blob"
                       /\ e.call = "upgradeKey"
                       /\ e.blob = store[k].blob
                       /\ e.out.blob = store'[k].blob
                       /\ store'[k].blob.mat = store[k].blob.mat
                       /\ store'[k].blob.ver > store[k].blob.ver]_vars

\* Two requests on the same key id have each upgraded it, the second from
\* the blob the first wrote.
C10_Witness ==
    \E t, u \in Threads :
        /\ t # u
        /\ hist[t].kid # 0
        /\ hist[t].kid = hist[u].kid
        /\ hist[t].persisted = "Ok"
        /\ hist[u].persisted = "Ok"
        /\ hist[u].blob0 = hist[t].upgraded
        /\ hist[u].upgraded # hist[t].upgraded
        /\ store[hist[u].kid].blob = hist[u].upgraded

\* ------------------------------------------------------ guards after return
\* Thread t's request has loaded a key entry and is past the protocol: it has
\* returned, or goes on to register its operation or to store its key.
PastProtocol(t) == hist[t].kid # 0 /\ pc[t] \in {"done", "register", "store_new_key"}

\* C11: when a createOperation or importWrappedKey that got a KeyIdGuard has
\* returned, on whatever path, it does not hold the guard any more: the key
\* id is locked only for a request that is still running on it, and is free
\* when there is none.
C11_GuardReleased ==
    \A t \in Threads :
        /\ PastProtocol(t) =>
              /\ loc[t].guard = 0
              /\ hist[t].kid \in guards =>
                    \E u \in Threads \ {t} : loc[u].guard = hist[t].kid
        /\ guards = {loc[u].guard : u \in Threads} \ {0}

\* A createOperation has failed at the write of the upgraded blob, and the
\* key id it had loaded is free.
C11_Witness ==
    \E t \in Threads :
        /\ req[t].op = "createOperation"
        /\ Failed(t, "DB_ERROR")
        /\ hist[t].kid # 0
        /\ hist[t].persisted = "DB_ERROR"
        /\ hist[t].kid \notin guards

\* ----------------------------------------------------- pruning by principal
\* C12: every prune call carries the uid of the request that was answered
\* too-many-operations, there is one such answer for every prune, and an
\* operation leaves the operation database only in a prune step of a
\* request of its owner.
C12_PruneOwnOperations ==
    [][/\ \A t \in Threads :
             /\ \A i \in 1..Len(hist'[t].prunes) : hist'[t].prunes[i] = req'[t].uid
             /\ Len(hist'[t].prunes) <= Len(Answered(hist'[t], "TOO_MANY_OPERATIONS"))
       /\ \A o \in ops \ ops' :
             \E t \in Threads :
                 /\ pc[t] = "prune"
                 /\ req[t].uid = o.uid
                 /\ hist'[t].prunes = Append(hist[t].prunes, o.uid)]_vars

\* Principal 2 has pruned while principal 1 owned an operation, which is
\* still registered.
C12_Witness ==
    \E t, u \in Threads :
        /\ req[t].uid # req[u].uid
        /\ Failed(u, "Ok")
        /\ [op |-> result[u].op, uid |-> req[u].uid] \in ops
        /\ hist[t].prunes = <<req[t].uid>>
        /\ pc[t] = "begin"

\* ------------------------------------------------------- missing arguments
\* An importWrappedKey whose authenticators lack the password or the
\* fingerprint authenticator.
MissingAuthenticator(t) ==
    req[t].op = "importWrappedKey" /\ req[t].auths # Authenticators

\* C13 as stated: an importWrappedKey without password or fingerprint
\* authenticator fails with INVALID_ARGUMENT, whatever the permission check
\* and the load of the wrapping key return, and makes no engine call.
C13_AlwaysArgumentError ==
    \A t \in Threads :
        MissingAuthenticator(t) =>
            /\ hist[t].eng = <<>>
            /\ pc[t] = "done" => result[t].rc = "INVALID_ARGUMENT"

\* C13, amended: an importWrappedKey without password or fingerprint
\* authenticator never succeeds, makes no engine call and no key database
\* change; it fails with INVALID_ARGUMENT when the rebind check has been
\* granted and the wrapping key has been loaded with its key blob, and with
\* the error of that earlier step otherwise.
C13_AuthenticatorsRequired ==
    \A t \in Threads :
        MissingAuthenticator(t) =>
            /\ hist[t].eng = <<>>
            /\ hist[t].muts = 0
            /\ store = InitStore
            /\ pc[t] = "done" =>
                  /\ result[t].rc \in {"INVALID_ARGUMENT", "PERMISSION_DENIED",
                                       "KEY_NOT_FOUND", "SYSTEM_ERROR"}
                  /\ (hist[t].kid # 0 /\ hist[t].blob0 # NoBlob) =>
                        result[t].rc = "INVALID_ARGUMENT"
                  /\ (hist[t].kid # 0 /\ hist[t].blob0 = NoBlob) =>
                        result[t].rc = "SYSTEM_ERROR"
                  /\ (hist[t].kid = 0 /\ result[t].rc = "INVALID_ARGUMENT") =>
                        hist[t].perms = <<>>

\* An importWrappedKey with the password authenticator only has loaded its
\* wrapping key and failed with INVALID_ARGUMENT.
C13_Witness ==
    \E t \in Threads :
        /\ req[t].op = "importWrappedKey"
        /\ req[t].auths = {"PASSWORD"}
        /\ hist[t].kid # 0
        /\ Failed(t, "INVALID_ARGUMENT")
        /\ hist[t].eng = <<>>

\* A createOperation without PURPOSE parameter.
NoPurpose(t) == req[t].op = "createOperation" /\ ~req[t].purpose

AppCreation(t) == Creation(t) /\ req[t].key.domain = "APP"

\* Where a key entry is and what it is called.
Binding(e) == [domain |-> e.domain, nspace |-> e.nspace, alias |-> e.alias]

\* C15: for an APP creation request by principal P, whatever namespace the
\* descriptor names, the rebind check is made on namespace P, the entry is
\* created in namespace P and the alias is bound in namespace P; no entry
\* changes its namespace, and the entries of other namespaces keep their
\* alias.
C15_AppNamespaceIsCaller ==
    \A t \in Threads :
        AppCreation(t) =>
            /\ \A i \in 1..Len(hist[t].perms) :
                  hist[t].perms[i][1] = "rebind" =>
                      /\ hist[t].perms[i][2].domain = "APP"
                      /\ hist[t].perms[i][2].nspace = req[t].uid
            /\ \A k \in KeyIds \ (1..Len(InitStore)) :
                  store[k].domain = "APP" /\ store[k].nspace = req[t].uid
            /\ \A k \in 1..Len(InitStore) :
                  /\ Binding(store[k]).domain = InitStore[k].domain
                  /\ Binding(store[k]).nspace = InitStore[k].nspace
                  /\ (InitStore[k].domain # "APP" \/ InitStore[k].nspace # req[t].uid) =>
                        Binding(store[k]) = Binding(InitStore[k])
            /\ Failed(t, "Ok") =>
                  /\ result[t].key.nspace \in KeyIds \ (1..Len(InitStore))
                  /\ store[result[t].key.nspace].alias = req[t].key.alias
                  /\ KeyIdOf(KeyDescriptor("APP", req[t].uid, req[t].key.alias, NoBlob))
                        = result[t].key.nspace

\* Principal 1 has created an APP key naming another namespace; the key is
\* in namespace 1.
C15_Witness ==
    \E t \in Threads :
        /\ AppCreation(t)
        /\ req[t].uid = 1
        /\ req[t].key.nspace # req[t].uid
        /\ Failed(t, "Ok")
        /\ store[result[t].key.nspace].nspace = 1
        /\ store[result[t].key.nspace].alias = req[t].key.alias
        /\ store[1].alias = NoAlias

\* ------------------------------------------------------------- BLOB domain
\* A request whose key descriptor is in Domain::BLOB.
BlobRequest(t) == req[t].op # "none" /\ req[t].key.domain = "BLOB"

\* A creation in Domain::BLOB returns the engine's blob in a BLOB descriptor.
BlobCreation(t) ==
    (Creation(t) /\ Failed(t, "Ok")) =>
        /\ result[t].key.domain = "BLOB"
        /\ result[t].key.blob = EngineBlob(t)
        /\ result[t].key.blob # NoBlob

\* A createOperation in Domain::BLOB writes no upgraded blob, and calls begin
\* with the upgraded blob once upgradeKey has succeeded.
BlobOperation(t) ==
    req[t].op = "createOperation" =>
        /\ hist[t].kid = 0
        /\ hist[t].persisted = "none"
        /\ \A i \in 1..Len(hist[t].eng) :
              (/\ hist[t].eng[i].call = "begin"
               /\ \E j \in 1..(i - 1) : /\ hist[t].eng[j].call = "upgradeKey"
                                        /\ hist[t].eng[j].rc = "Ok") =>
                  hist[t].eng[i].blob = hist[t].upgraded

\* C16 as stated: a request whose key descriptor is in Domain::BLOB never
\* changes the key database.
C16_BlobNeverMutates ==
    \A t \in Threads :
        BlobRequest(t) =>
            /\ store = InitStore
            /\ hist[t].muts = 0
            /\ BlobCreation(t)
            /\ BlobOperation(t)

\* C16, amended: a request whose key descriptor is in Domain::BLOB creates
\* no key entry and binds no alias; a creation returns the engine's blob in
\* a BLOB descriptor, a createOperation retries with the upgraded blob and
\* writes nothing.  The one change such a request can make is that of an
\* importWrappedKey to its stored wrapping key: the upgraded blob of the
\* wrapping key is written to its entry.
C16_BlobCreatesNoEntry ==
    \A t \in Threads :
        BlobRequest(t) =>
            /\ Len(store) = Len(InitStore)
            /\ \A k \in KeyIds :
                  \/ store[k] = InitStore[k]
                  \/ /\ req[t].op = "importWrappedKey"
                     /\ k = hist[t].kid
                     /\ hist[t].persisted = "Ok"
                     /\ store[k] = [InitStore[k] EXCEPT !.blob = hist[t].upgraded]
            /\ req[t].op # "importWrappedKey" => (store = InitStore /\ hist[t].muts = 0)
            /\ BlobCreation(t)
            /\ BlobOperation(t)

\* A createOperation on a client's blob has got its operation with the
\* upgraded blob, and the key database is as it was.
C16_Witness ==
    \E t \in Threads :
        /\ req[t].op = "createOperation"
        /\ req[t].key.domain = "BLOB"
        /\ hist[t].second = "Ok"
        /\ hist[t].upgraded # req[t].key.blob
        /\ hist[t].returned = hist[t].upgraded
        /\ Failed(t, "Ok")
        /\ store = InitStore

\* ------------------------------------------------------------ import format
Raw == {"AES", "HMAC", "TRIPLE_DES"}
Pkcs8 == {"RSA", "EC"}

RetryCalls(h) ==
    {i \in 1..Len(h.eng) :
        /\ h.eng[i].call \in {"begin", "importWrappedKey"}
        /\ \E j \in 1..(i - 1) : h.eng[j].call = "upgradeKey"}

\* C19: f is called with the upgraded blob only after upgradeKey has
\* succeeded and, for a stored key, after the upgraded blob has been written;
\* when upgradeKey fails the request fails with its error, nothing is
\* written, the stored blob is as it was and f is not called again; when
\* the write fails the request fails with its error and f is not called
\* again.
C19_RetryAfterUpgradeAndPersist ==
    \A t \in Threads :
        LET h == hist[t]
            ups == Calls(h, "upgradeKey")
        IN /\ (loc[t].attempt = 2 \/ RetryCalls(h) # {} \/ h.second # "none") =>
                 /\ Len(ups) = 1
                 /\ ups[1].rc = "Ok"
                 /\ h.kid # 0 => (h.persisted = "Ok" /\ store[h.kid].blob = h.upgraded)
           /\ (Len(ups) > 0 /\ ups[Len(ups)].rc # "Ok") =>
                 /\ Failed(t, ups[Len(ups)].rc)
                 /\ h.persisted = "none"
                 /\ h.muts = 0
                 /\ h.second = "none"
                 /\ RetryCalls(h) = {}
                 /\ h.kid # 0 => store[h.kid].blob = h.blob0
           /\ h.persisted = "DB_ERROR" =>
                 /\ Failed(t, "DB_ERROR")
                 /\ h.second = "none"
                 /\ RetryCalls(h) = {}

\* A createOperation on a stored key has failed at upgradeKey; the stored
\* blob is the one that was loaded.
C19_Witness ==
    \E t \in Threads :
        /\ hist[t].kid # 0
        /\ hist[t].first = Upgrade
        /\ Len(Calls(hist[t], "upgradeKey")) = 1
        /\ Failed(t, "KM_ERROR")
        /\ hist[t].persisted = "none"
        /\ store[hist[t].kid].blob = hist[t].blob0

\* The results of f in a history: every engine answer other than
\* too-many-operations ends a call of f.
FResults(h) ==
    SelectSeq(h.eng, LAMBDA e : /\ e.call \in {"begin", "importWrappedKey"}
                                /\ e.rc # "TOO_MANY_OPERATIONS")

\* C20: one run of the protocol calls f at most twice and upgradeKey at most
\* once; a second call of f that fails with upgrade-required ends the
\* request with that error.
C20_AtMostOneRetry ==
    \A t \in Threads :
        LET h == hist[t]
        IN /\ loc[t].attempt \in 0..2
           /\ Len(FResults(h)) <= 2
           /\ Len(Calls(h, "upgradeKey")) <= 1
           /\ h.second # "none" => h.ret = h.second
           /\ h.second = Upgrade =>
                 /\ Failed(t, Upgrade)
                 /\ Len(Calls(h, "upgradeKey")) = 1
                 /\ h.eng[Len(h.eng)].call # "upgradeKey"

\* The second begin of a createOperation has asked for an upgrade again, and
\* the request has failed with that.
C20_Witness ==
    \E t \in Threads :
        /\ req[t].op = "createOperation"
        /\ hist[t].second = Upgrade
        /\ Len(FResults(hist[t])) = 2
        /\ FResults(hist[t])[2].rc = Upgrade
        /\ Failed(t, Upgrade)

\* ------------------------------------------------------- the engine handle
\* The steps at which a thread is in a call of the engine.
EnginePcs == {"addRngEntropy", "km_generateKey", "km_importKey", "begin",
              "km_upgradeKey", "km_importWrappedKey"}

\* Thread t has passed every test before get_interface and asks for its
\* handle next.
WantsHandle(t) ==
    \/ pc[t] = "co_purpose" /\ loc[t].km_blob # NoBlob /\ req[t].purpose
    \/ /\ pc[t] = "iwk_authenticators"
       /\ loc[t].km_blob # NoBlob
       /\ req[t].auths = Authenticators

\* Thread t locks the mutex of the shared handle.
TakesLock(t) == (co_purpose(t) \/ iwk_authenticators(t)) /\ mutex' = t

\* C17: at most one thread is inside the clone/resolve step of the shared
\* engine handle at any time, and it is the one holding the mutex; no thread
\* in an engine call holds the mutex; a thread asking for its handle gets
\* the lock unless another thread is inside the clone/resolve step, whatever
\* engine calls the other threads are in, and a thread inside the step can
\* always leave it.
C17_MutexOnlyAroundResolve ==
    /\ mutex \in Threads \cup {0}
    /\ \A t \in Threads : (pc[t] = "get_interface") <=> (mutex = t)
    /\ \A t \in Threads : pc[t] \in EnginePcs => mutex # t
    /\ (\E t \in Threads : pc[t] \in EnginePcs) /\
       (\A t \in Threads : pc[t] # "get_interface") => mutex = 0
    /\ \A t \in Threads :
          (WantsHandle(t) /\ \A u \in Threads \ {t} : pc[u] # "get_interface")
              => ENABLED TakesLock(t)
    /\ \A t \in Threads : pc[t] = "get_interface" => ENABLED get_interface(t)

\* Two threads are in engine calls at once, each with its own handle.
C17_Witness ==
    /\ \A t \in Threads : pc[t] \in EnginePcs
    /\ mutex = 0

\* ------------------------------------------- pruning inside the protocol
\* Entry i of a history is a begin the engine answered with upgrade-required.
AsksUpgrade(h, i) == h.eng[i].call = "begin" /\ h.eng[i].rc = Upgrade

\* Entry i of a history is a begin that follows a prune: the begin before it
\* was answered too-many-operations.
AfterPrune(h, i) ==
    /\ i > 1
    /\ h.eng[i - 1].call = "begin"
    /\ h.eng[i - 1].rc = "TOO_MANY_OPERATIONS"

\* Entry i of a history is handled by upgrade and retry: upgradeKey is the
\* next engine call, made already or about to be made.
Upgraded(t, i) ==
    IF i = Len(hist[t].eng)
    THEN pc[t] = "km_upgradeKey"
    ELSE hist[t].eng[i + 1].call = "upgradeKey"

\* upgradeKey was called before entry i of a history.
UpgradedBefore(h, i) == \E j \in 1..(i - 1) : h.eng[j].call = "upgradeKey"

\* C21 as stated: an upgrade-required answer to a begin that follows a prune
\* is handled by upgrade and retry, also after an earlier upgrade in the same
\* request.
C21_FreshProtocolAfterPrune ==
    \A t \in Threads : \A i \in 1..Len(hist[t].eng) :
        (req[t].op = "createOperation" /\ AsksUpgrade(hist[t], i)
            /\ AfterPrune(hist[t], i)) => Upgraded(t, i)

\* C21: the too-many-operations loop is inside the function the protocol
\* calls: an upgrade-required answer to a begin of the first call, after any
\* number of prunes, is handled by upgrade and retry; an upgrade-required
\* answer to a begin of the second call, after a prune or not, is the last
\* engine call of the request, which fails with upgrade-required.
C21_PruneLoopInsideProtocol ==
    \A t \in Threads : \A i \in 1..Len(hist[t].eng) :
        (req[t].op = "createOperation" /\ AsksUpgrade(hist[t], i)) =>
            IF UpgradedBefore(hist[t], i)
            THEN /\ i = Len(hist[t].eng)
                 /\ Failed(t, Upgrade)
                 /\ hist[t].second = Upgrade
                 /\ Len(Calls(hist[t], "upgradeKey")) = 1
            ELSE /\ Upgraded(t, i)
                 /\ hist[t].first = Upgrade

\* Both calls of the function pruned and were then asked for an upgrade: the
\* first was followed by upgradeKey, the second ended the request.
C21_Witness ==
    \E t \in Threads :
        LET h == hist[t]
        IN /\ req[t].op = "createOperation"
           /\ Len(h.eng) = 5
           /\ AfterPrune(h, 2) /\ AsksUpgrade(h, 2)
           /\ h.eng[3].call = "upgradeKey" /\ h.eng[3].rc = "Ok"
           /\ AfterPrune(h, 5) /\ AsksUpgrade(h, 5)
           /\ Len(h.prunes) = 2
           /\ Failed(t, Upgrade)

\* ------------------------------------------------------- the pruning loop
\* In this step thread t's begin is answered too-many-operations.
TooMany(t) ==
    /\ pc[t] = "begin"
    /\ Len(hist'[t].eng) = Len(hist[t].eng) + 1
    /\ hist'[t].eng[Len(hist'[t].eng)].rc = "TOO_MANY_OPERATIONS"

\* In this step thread t's prune succeeds: it is logged and is not the
\* result of the function the protocol called.
PruneOk(t) ==
    /\ pc[t] = "prune"
    /\ Len(hist'[t].prunes) = Len(hist[t].prunes) + 1
    /\ hist'[t].first = hist[t].first
    /\ hist'[t].second = hist[t].second

\* C22: however many times the loop has run, a too-many-operations answer
\* to begin leads to a prune and a successful prune to the next begin, so the
\* request does not return while both go on; a thread that is scheduled and
\* whose engine stops answering too-many-operations returns from
\* createOperation.
C22_NoIterationCap ==
    /\ [][\A t \in Threads :
             /\ TooMany(t) => pc'[t] = "prune" /\ result'[t] = NoResult
             /\ PruneOk(t) => pc'[t] = "begin" /\ result'[t] = NoResult]_vars
    /\ \A t \in Threads :
          (req[t].op = "createOperation" /\ pc[t] = "begin") ~> (pc[t] = "done")

\* A request has pruned as many times as the engine refused it, and has
\* returned when the engine answered something else.
C22_Witness ==
    \E t \in Threads :
        /\ req[t].op = "createOperation"
        /\ Len(Answered(hist[t], "TOO_MANY_OPERATIONS")) = MaxPrune
        /\ Len(hist[t].prunes) = MaxPrune
        /\ hist[t].eng[Len(hist[t].eng)].rc = "KM_ERROR"
        /\ Failed(t, "KM_ERROR")

\* ------------------------------------------ the guard during createOperation
\* Thread t serves a createOperation that has loaded the entry of key id k.
OperationOn(t, k) ==
    /\ req[t].op = "createOperation"
    /\ req[t].key.domain # "BLOB"
    /\ k # 0
    /\ hist[t].kid = k

\* Thread t is between the load and the end of the write of the upgraded
\* blob, or the return of the protocol if there is no upgrade.
BeforeWritten(t) ==
    \/ pc[t] \in {"co_purpose", "get_interface", "km_upgradeKey", "insert_blob"}
    \/ pc[t] \in {"begin", "prune"} /\ loc[t].attempt = 1

\* Thread t is in the second call of the function, registers the operation
\* or has returned.
AfterWritten(t) ==
    \/ pc[t] \in {"register", "done"}
    \/ pc[t] \in {"begin", "prune"} /\ loc[t].attempt = 2

\* No other thread can get the guard of key id k.
OnlyHolder(t, k) ==
    /\ loc[t].guard = k
    /\ k \in guards
    /\ \A u \in Threads \ {t} : loc[u].guard # k /\ ~ENABLED Acquire(u, k)

\* C23 as stated: from the load until createOperation returns, the second
\* begin, every prune and the registration included, no other request can
\* get the guard of the key id.
C23_HeldUntilReturn ==
    \A t \in Threads :
        (OperationOn(t, hist[t].kid) /\ pc[t] # "done") => OnlyHolder(t, hist[t].kid)

\* C23: a createOperation on a stored key holds the guard of the key id from
\* the load until the upgraded blob is written or, without an upgrade, until
\* the protocol returns, every prune of the first call included, and no
\* other request can get it then; it does not hold the guard during the
\* second call of begin and its prunes, nor when it registers the operation,
\* and another request that loads the key id then gets the guard.
C23_HeldUntilWritten ==
    \A t \in Threads :
        LET k == hist[t].kid
        IN OperationOn(t, k) =>
              /\ BeforeWritten(t) \/ AfterWritten(t)
              /\ BeforeWritten(t) => OnlyHolder(t, k)
              /\ AfterWritten(t) =>
                    /\ loc[t].guard = 0
                    /\ \A u \in Threads \ {t} :
                          (Loading(u, k) /\ k \notin guards) => ENABLED Acquire(u, k)

\* A createOperation is in its second call of begin, after a prune, and the
\* other request holds the guard of the same key id.
C23_Witness ==
    \E t, u \in Threads :
        /\ t # u
        /\ OperationOn(t, hist[t].kid)
        /\ pc[t] = "begin"
        /\ loc[t].attempt = 2
        /\ hist[t].persisted = "Ok"
        /\ Len(hist[t].prunes) = 1
        /\ loc[u].guard = hist[t].kid

\* ------------------------------------------------- the operation registry
\* The entries this step adds to the operation registry.
Added == ops' \ ops

\* The last engine call of thread t.
LastCall(t) == hist[t].eng[Len(hist[t].eng)]

\* Thread t's createOperation returns in this step.
OperationReturns(t) ==
    req[t].op = "createOperation" /\ pc[t] # "done" /\ pc'[t] = "done"

\* Thread t has got an operation from the engine and is past its
\* registration: what can still fail is the conversion of the session
\* object into its binder interface.
Converting(t) == pc[t] = "register" /\ loc[t].op # 0

\* C24: a step adds at most one entry to the operation registry, and only as
\* the step in which a createOperation that has the engine's operation
\* returns: the entry holds the handle the engine's last begin returned and
\* the caller's uid.  A createOperation that succeeds adds exactly that
\* entry, and one that fails for an argument, a permission, an engine, an
\* upgrade, a persist or a prune error, or because begin succeeded without a
\* handle, adds none.
C24_OneEntryPerSuccess ==
    [][/\ Cardinality(Added) <= 1
       /\ \A e \in Added : \E t \in Threads :
             /\ OperationReturns(t)
             /\ Converting(t)
             /\ LastCall(t).call = "begin"
             /\ LastCall(t).rc = "Ok"
             /\ e = [op |-> LastCall(t).out.op, uid |-> req[t].uid]
       /\ \A t \in Threads :
             OperationReturns(t) =>
                IF result'[t].rc = "Ok"
                THEN /\ Added = {[op |-> result'[t].op, uid |-> req[t].uid]}
                     /\ result'[t].op = LastCall(t).out.op
                ELSE Converting(t) \/ Added = {}]_vars

\* Two createOperation requests have succeeded, the registry holds the two
\* operations, each for its caller, and a third request has not been made.
C24_Witness ==
    /\ \A t \in Threads :
          /\ req[t].op = "createOperation"
          /\ Failed(t, "Ok")
          /\ [op |-> result[t].op, uid |-> req[t].uid] \in ops
    /\ Cardinality(ops) = 2
    /\ result[1].op # result[2].op

\* ----------------------------------------------------------- a failed prune
\* The engine call that prune i of a history follows: the i-th begin that
\* was answered too-many-operations.
RefusedAt(h, i) ==
    CHOOSE j \in 1..Len(h.eng) :
        /\ h.eng[j].rc = "TOO_MANY_OPERATIONS"
        /\ Cardinality({k \in 1..j : h.eng[k].rc = "TOO_MANY_OPERATIONS"}) = i

\* C25: when a prune of a createOperation fails, the begin it follows is
\* the last begin of that call of the function.  If the error is
\* upgrade-required and the protocol has not upgraded yet, it is the result
\* of the first call: upgradeKey is the next engine call.  Otherwise the
\* request has failed with the prune's error: no engine call follows, there
\* is no later prune, and no operation is registered.
C25_PruneErrorEndsLoop ==
    \A t \in Threads :
        LET h == hist[t]
        IN req[t].op = "createOperation" =>
              /\ Len(h.pruned) = Len(h.prunes)
              /\ \A i \in 1..Len(h.pruned) :
                    h.pruned[i] # "Ok" =>
                       LET j == RefusedAt(h, i)
                       IN IF h.pruned[i] = Upgrade /\ ~UpgradedBefore(h, j)
                          THEN /\ h.first = Upgrade
                               /\ Upgraded(t, j)
                          ELSE /\ j = Len(h.eng)
                               /\ i = Len(h.pruned)
                               /\ Failed(t, h.pruned[i])
                               /\ h.ret = h.pruned[i]
                               /\ result[t].op = 0
                               /\ \A x \in ops : x.uid # req[t].uid

\* A prune of the first call has failed with upgrade-required, the protocol
\* has upgraded, and a prune of the second call has failed: the request has
\* failed with that error after two begins.
C25_Witness ==
    \E t \in Threads :
        /\ req[t].op = "createOperation"
        /\ hist[t].pruned = <<Upgrade, "SYSTEM_ERROR">>
        /\ Len(Calls(hist[t], "begin")) = 2
        /\ Len(Calls(hist[t], "upgradeKey")) = 1
        /\ Failed(t, "SYSTEM_ERROR")
        /\ ops = {}

\* ------------------------------------------- two requests and a stale blob
\* Threads t and u serve createOperation requests that loaded the same
\* stored key.
SameKey(t, u) ==
    /\ t # u
    /\ req[t].op = "createOperation"
    /\ req[u].op = "createOperation"
    /\ hist[t].kid # 0
    /\ hist[t].kid = hist[u].kid

\* The blobs upgradeKey has produced.
UpgradedBlobs == {hist[x].upgraded : x \in Threads} \ {NoBlob}

\* The engine has not answered upgrade-required to a begin on a blob that
\* upgradeKey produced.
UpgradedBlobAccepted ==
    \A x \in Threads : \A i \in 1..Len(hist[x].eng) :
        (hist[x].eng[i].call = "begin" /\ hist[x].eng[i].blob \in UpgradedBlobs)
            => hist[x].eng[i].rc # Upgrade

\* No write of an upgraded blob has failed.
PersistSucceeds == \A x \in Threads : hist[x].persisted # "DB_ERROR"

\* No upgradeKey call has failed.
UpgradeSucceeds ==
    \A x \in Threads : \A i \in 1..Len(hist[x].eng) :
        hist[x].eng[i].call = "upgradeKey" => hist[x].eng[i].rc = "Ok"

\* No prune has failed with upgrade-required: every upgrade-required result
\* is an answer of the engine.
EngineAsksUpgrade ==
    \A x \in Threads : \A i \in 1..Len(hist[x].pruned) : hist[x].pruned[i] # Upgrade

\* The upgradeKey calls of two threads.
UpgradeCalls(t, u) ==
    Len(Calls(hist[t], "upgradeKey")) + Len(Calls(hist[u], "upgradeKey"))

\* Both requests have returned and the blob was stale: the engine has
\* answered a begin of one of them with upgrade-required.
BothDoneOneAsked(t, u) ==
    /\ pc[t] = "done"
    /\ pc[u] = "done"
    /\ \E x \in {t, u} : \E i \in 1..Len(hist[x].eng) : AsksUpgrade(hist[x], i)

====
